---- MODULE Spec2Model ----
(***************************************************************************)
(* A model of tldm's logging redirection (src/src/tldm/logging.py) and of  *)
(* its iteration adapters and environment selector                         *)
(* (src/src/tldm/aliases.py).                                              *)
(*                                                                         *)
(* Python objects are modelled by identity: a handler is an id into hobj,  *)
(* a list object is an id into lists, and logger.handlers is a reference   *)
(* (a list id), so that a snapshot taken by reference and a snapshot taken *)
(* by copy are different things in the model, as they are in the code.     *)
(***************************************************************************)
EXTENDS Integers, Sequences, FiniteSets, TLC

VARIABLES
    hobj,       \* handler id -> the handler object's class and attributes
    lists,      \* list id -> the list object's contents (handler ids)
    lhandlers,  \* logger -> list id: the logger.handlers reference
    scopes,     \* stack of the active redirect scopes, innermost last
    bodyOps,    \* how many handler changes the program made through loggers
    last,       \* what the last operation did and what was observed of it
    env,        \* the process's environment, as the environment selector probes it
    imported,   \* whether tldm.aliases has been imported
    auto_tldm,  \* the module attribute aliases.auto_tldm
    selector,   \* what the runs of _get_auto_tldm did: their number, result, effects
    gen,        \* the generator object a tproduct call returned, and its progress bar
    res         \* the result of a tenumerate, tzip, tmap or trange call, and its progress bar

logvars == <<hobj, lists, lhandlers, scopes, bodyOps, last>>

advars == <<env, imported, auto_tldm, selector, gen, res>>

vars == <<logvars, advars>>

----------------------------------------------------------------------------
(* Bounds of the logging model *)

NumLoggers == 2
MaxScopes == 1
MaxInitialHandlers == 2
MaxBodyOps == 1
MaxNested == 2

----------------------------------------------------------------------------
(* The objects of the logging model *)

None == "None"

Loggers == 1..NumLoggers

\* logging.root, the default of loggers (logging.py:82-83)
root == CHOOSE l \in Loggers : \A m \in Loggers : l <= m

\* The lists of loggers a caller passes, in the loggers' order: a logger may
\* repeat.
LoggerLists ==
    {ls \in UNION {[1..n -> Loggers] : n \in 0..NumLoggers} :
        \A i, j \in DOMAIN ls : i < j => ls[i] <= ls[j]}

\* The loggers argument: omitted (None), or a list.
LoggersArgs == {[given |-> FALSE, value |-> <<>>]} \cup {[given |-> TRUE, value |-> ls] : ls \in LoggerLists}

TqdmClasses == {"std_tldm", "MockTldm"}

Levels == {10, 20, 30}

Msgs == {"msg"}

\* The handlers the program configured before any scope: a console handler on
\* stderr, a file handler, and a console handler on stdout without a formatter.
PreHandlers ==
    << [cls |-> "StreamHandler", stream |-> "stderr", level |-> 30, formatter |-> "fmtA", tqdm_class |-> None],
       [cls |-> "FileHandler", stream |-> "file", level |-> 10, formatter |-> "fmtB", tqdm_class |-> None],
       [cls |-> "StreamHandler", stream |-> "stdout", level |-> 10, formatter |-> None, tqdm_class |-> None] >>

PreIds == 1..Len(PreHandlers)

MaxLoggersArg == NumLoggers

\* The deepest stack of scopes a specification builds
MaxDepth == IF MaxNested > MaxScopes THEN MaxNested ELSE MaxScopes

TqdmIds == (Len(PreHandlers) + 1)..(Len(PreHandlers) + MaxDepth * MaxLoggersArg + 1)

HandlerIds == PreIds \cup TqdmIds

ListIds == 1..(NumLoggers * (MaxDepth + 1) + MaxLoggersArg)

FreeHandler == [cls |-> "free", stream |-> None, level |-> 0, formatter |-> None, tqdm_class |-> None]

Range(s) == {s[i] : i \in DOMAIN s}

\* The handler lists a logger may start with: no handler is added twice
\* (Logger.addHandler skips a handler the list already holds).
InitialHandlerLists ==
    {s \in UNION {[1..n -> PreIds] : n \in 0..MaxInitialHandlers} :
        \A i, j \in DOMAIN s : i # j => s[i] # s[j]}

NoBar == [acquired |-> FALSE, exits |-> 0]

NoEvent ==
    [op |-> "none", how |-> "none", loggers |-> <<>>, pre |-> <<>>, temporary |-> <<>>,
     failAt |-> 0, pbar |-> NoBar,
     logger |-> 0, level |-> 0, msg |-> None, fail |-> <<"none", "none">>,
     received |-> <<>>, direct |-> {}, writes |-> <<>>,
     handleError |-> 0, raised |-> "none"]

----------------------------------------------------------------------------
(* logging.py *)

\* isinstance(handler, logging.StreamHandler)
IsPlainStreamHandler(h) == h.cls \in {"StreamHandler", "FileHandler"}

\* _TqdmLoggingHandler is a subclass of logging.StreamHandler (logging.py:14)
IsStreamHandler(h) == h.cls \in {"StreamHandler", "FileHandler", "_TqdmLoggingHandler"}

is_console_only_stdout(h) == IsStreamHandler(h) /\ h.stream = "stdout"

is_console_logging_handler(h) == IsStreamHandler(h) /\ h.stream \in {"stdout", "stderr"}

\* The first console handler of a list of handler ids, or 0 for None.
RECURSIVE get_first_from(_, _, _)
get_first_from(handlers, objs, i) ==
    IF i > Len(handlers) THEN 0
    ELSE IF is_console_logging_handler(objs[handlers[i]]) THEN handlers[i]
    ELSE get_first_from(handlers, objs, i + 1)

get_last_found_console_logging_handler(handlers, objs) ==
    LET found == {i \in DOMAIN handlers : is_console_logging_handler(objs[handlers[i]])}
    IN IF found = {} THEN 0 ELSE handlers[CHOOSE i \in found : \A j \in found : j <= i]

\* _get_first_found_console_logging_handler (logging.py:40-46)
get_first_found_console_logging_handler(handlers, objs) == get_first_from(handlers, objs, 1)

\* _TqdmLoggingHandler(tqdm_class): StreamHandler.__init__() leaves the stream
\* at sys.stderr, the level at NOTSET and no formatter.
TqdmLoggingHandler(tqdm_class) ==
    [cls |-> "_TqdmLoggingHandler", stream |-> "stderr", level |-> 0,
     formatter |-> None, tqdm_class |-> tqdm_class]

\* The list ids a logger or the snapshot of an active scope refers to.
UsedLists(lh, scs) ==
    {lh[l] : l \in Loggers} \cup UNION {Range(scs[k].original_handlers_list) : k \in DOMAIN scs}

\* A list object that does not exist yet; held are the lists a local
\* variable refers to.
FreshList(lh, scs, held) ==
    LET used == UsedLists(lh, scs) \cup held
    IN CHOOSE id \in ListIds : id \notin used /\ \A j \in ListIds : j < id => j \in used

UsedHandlers(ls) == PreIds \cup UNION {Range(ls[id]) : id \in ListIds}

FreshHandler(ls) == CHOOSE id \in TqdmIds : id \notin UsedHandlers(ls) /\ \A j \in TqdmIds : j < id => j \in UsedHandlers(ls)

\* Objects nothing refers to any more are gone.
Collect(st, scs) ==
    LET ls == [id \in ListIds |-> IF id \in UsedLists(st.lh, scs) THEN st.lists[id] ELSE <<>>]
    IN [lh |-> st.lh,
        lists |-> ls,
        hobj |-> [h \in HandlerIds |-> IF h \in UsedHandlers(ls) THEN st.hobj[h] ELSE FreeHandler]]

NonConsole(handlers, objs) ==
    LET keep(h) == ~is_console_logging_handler(objs[h])
    IN SelectSeq(handlers, keep)

KeepAllHandlers(handlers, objs, t) == Append(handlers, t)

\* logging.py:93-95: the list assigned to logger.handlers
RedirectedHandlers(handlers, objs, t) == Append(NonConsole(handlers, objs), t)

RECURSIVE EnterLoopInPlace(_, _, _, _, _, _, _)
EnterLoopInPlace(st, scs, original_handlers_list, loggers, tqdm_class, i, failAt) ==
    IF i > Len(loggers) \/ i = failAt THEN st
    ELSE LET logger == loggers[i]
             cur == st.lists[st.lh[logger]]
             t == FreshHandler(st.lists)
             orig_handler == get_first_found_console_logging_handler(cur, st.hobj)
             fresh == TqdmLoggingHandler(tqdm_class)
             tqdm_handler ==
                 IF orig_handler # 0
                 THEN [fresh EXCEPT !.formatter = st.hobj[orig_handler].formatter,
                                    !.level = st.hobj[orig_handler].level,
                                    !.stream = st.hobj[orig_handler].stream]
                 ELSE fresh
             st2 == [lh |-> st.lh,
                     lists |-> [st.lists EXCEPT ![st.lh[logger]] = RedirectedHandlers(cur, st.hobj, t)],
                     hobj |-> [st.hobj EXCEPT ![t] = tqdm_handler]]
         IN EnterLoopInPlace(st2, scs, original_handlers_list, loggers, tqdm_class, i + 1, failAt)

\* logging.py:86-95: the loop over the loggers, from the i-th on; it stops
\* before the failAt-th logger when that iteration raises.
RECURSIVE EnterLoop(_, _, _, _, _, _, _)
EnterLoop(st, scs, original_handlers_list, loggers, tqdm_class, i, failAt) ==
    IF i > Len(loggers) \/ i = failAt THEN st
    ELSE LET logger == loggers[i]
             cur == st.lists[st.lh[logger]]
             t == FreshHandler(st.lists)
             nl == FreshList(st.lh, scs, Range(original_handlers_list))
             orig_handler == get_first_found_console_logging_handler(cur, st.hobj)
             fresh == TqdmLoggingHandler(tqdm_class)
             tqdm_handler ==
                 IF orig_handler # 0
                 THEN [fresh EXCEPT !.formatter = st.hobj[orig_handler].formatter,
                                    !.level = st.hobj[orig_handler].level,
                                    !.stream = st.hobj[orig_handler].stream]
                 ELSE fresh
             st2 == [lh |-> [st.lh EXCEPT ![logger] = nl],
                     lists |-> [st.lists EXCEPT ![nl] = RedirectedHandlers(cur, st.hobj, t)],
                     hobj |-> [st.hobj EXCEPT ![t] = tqdm_handler]]
         IN EnterLoop(st2, scs, original_handlers_list, loggers, tqdm_class, i + 1, failAt)

RECURSIVE RestoreByPosition(_, _, _, _)
RestoreByPosition(lh, loggers, original_handlers_list, i) ==
    IF i > Len(loggers) THEN lh
    ELSE RestoreByPosition([lh EXCEPT ![i] = original_handlers_list[i]],
                           loggers, original_handlers_list, i + 1)

\* logging.py:98-99: each logger of the list gets its original list back
RECURSIVE RestoreFrom(_, _, _, _)
RestoreFrom(lh, loggers, original_handlers_list, i) ==
    IF i > Len(loggers) THEN lh
    ELSE RestoreFrom([lh EXCEPT ![loggers[i]] = original_handlers_list[i]],
                     loggers, original_handlers_list, i + 1)

RestoreOnlyOnNormalExit(lh, loggers, original_handlers_list, how) ==
    IF how = "normal" THEN RestoreFrom(lh, loggers, original_handlers_list, 1) ELSE lh

\* logging.py:97-99: the finally clause, run however the scope is left
RestoreHandlers(lh, loggers, original_handlers_list, how) ==
    RestoreFrom(lh, loggers, original_handlers_list, 1)

pbar_left_open(pbar) == pbar

\* The with statement's exit of the progress-bar instance (logging.py:124)
pbar_exit(pbar) == IF pbar.acquired THEN [pbar EXCEPT !.exits = @ + 1] ELSE pbar

\* Handler.format: the handler's formatter, or logging's default one, applied
\* to the record.
Format(formatter, msg) == <<IF formatter = None THEN "defaultFormatter" ELSE formatter, msg>>

Interruptions == {"KeyboardInterrupt", "SystemExit"}

\* What a step of emit may raise: an ordinary error, an interruption, or a
\* BaseException that is neither.
Raisable == {"Exception", "GeneratorExit"} \cup Interruptions

EmitSteps == <<"format", "write", "flush">>

Failures == {<<"none", "none">>} \cup {<<EmitSteps[i], e>> : i \in DOMAIN EmitSteps, e \in Raisable}

EmitCatchesOnlyException(h, msg, fail) ==
    LET w == [cls |-> h.tqdm_class, msg |-> Format(h.formatter, msg), file |-> h.stream]
    IN [writes |-> IF fail[1] = "format" THEN <<>> ELSE <<w>>,
        handleError |-> IF fail[2] = "Exception" THEN 1 ELSE 0,
        raised |-> IF fail[2] = "Exception" THEN "none" ELSE fail[2]]

\* _TqdmLoggingHandler.emit (logging.py:22-30); fail = <<step, exception>> is
\* the step of the try block that raises, and what it raises.
emit(h, msg, fail) ==
    LET w == [cls |-> h.tqdm_class, msg |-> Format(h.formatter, msg), file |-> h.stream]
        failed == fail[1] # "none"
    IN [writes |-> IF fail[1] = "format" THEN <<>> ELSE <<w>>,
        handleError |-> IF failed /\ fail[2] \notin Interruptions THEN 1 ELSE 0,
        raised |-> IF failed /\ fail[2] \in Interruptions THEN fail[2] ELSE "none"]

\* Logger.callHandlers over logger.handlers, from the i-th handler on: a
\* handler receives the record when the record's level reaches its level; an
\* exception a handler lets through ends the loop.
RECURSIVE callHandlers(_, _, _, _, _, _, _)
callHandlers(handlers, objs, level, msg, fail, i, acc) ==
    IF i > Len(handlers) \/ acc.raised # "none" THEN acc
    ELSE LET id == handlers[i]
             h == objs[id]
             e == emit(h, msg, fail)
             acc2 ==
                 IF level < h.level THEN acc
                 ELSE IF h.cls = "_TqdmLoggingHandler"
                 THEN [received |-> Append(acc.received, id), direct |-> acc.direct,
                       writes |-> acc.writes \o e.writes,
                       handleError |-> acc.handleError + e.handleError,
                       raised |-> e.raised]
                 ELSE [acc EXCEPT !.received = Append(@, id),
                                  !.direct = IF IsStreamHandler(h) THEN @ \cup {id} ELSE @]
         IN callHandlers(handlers, objs, level, msg, fail, i + 1, acc2)

\* The index of the innermost active scope that redirects logger l, or 0.
InnermostScope(scs, l) ==
    LET ks == {k \in DOMAIN scs : l \in Range(scs[k].loggers)}
    IN IF ks = {} THEN 0 ELSE CHOOSE k \in ks : \A j \in ks : j <= k

----------------------------------------------------------------------------
(* The operations of the logging model *)

\* Entering a redirect scope over `loggers`; pbar is the progress-bar
\* instance of the companion scope, NoBar for logging_redirect_tqdm itself.
\* failAt = 0: the loop completes and the body starts; failAt = i: the i-th
\* iteration raises, the finally clause runs and the exception propagates.
EnterScope(loggersArg, tqdm_class, failAt, pbar) ==
    LET loggers == IF ~loggersArg.given THEN <<root>> ELSE loggersArg.value
        original_handlers_list == [i \in DOMAIN loggers |-> lhandlers[loggers[i]]]
        pre == [i \in DOMAIN loggers |-> lists[lhandlers[loggers[i]]]]
        st1 == EnterLoop([lh |-> lhandlers, lists |-> lists, hobj |-> hobj],
                         scopes, original_handlers_list, loggers, tqdm_class, 1, failAt)
        frame == [loggers |-> loggers, original_handlers_list |-> original_handlers_list,
                  tqdm_class |-> tqdm_class, pbar |-> pbar,
                  pre |-> pre]
        restored == [st1 EXCEPT !.lh = RestoreHandlers(st1.lh, loggers, original_handlers_list, "exception")]
        scs == IF failAt = 0 THEN Append(scopes, frame) ELSE scopes
        st2 == Collect(IF failAt = 0 THEN st1 ELSE restored, scs)
    IN /\ failAt \in 0..Len(loggers)
       /\ scopes' = scs
       /\ lhandlers' = st2.lh
       /\ lists' = st2.lists
       /\ hobj' = st2.hobj
       /\ UNCHANGED bodyOps
       /\ last' = [NoEvent EXCEPT !.op = IF failAt = 0 THEN "enter" ELSE "enter_failed",
                                  !.how = IF failAt = 0 THEN "normal" ELSE "exception",
                                  !.loggers = loggers, !.pre = pre, !.failAt = failAt,
                                  !.pbar = IF failAt = 0 THEN pbar ELSE pbar_exit(pbar)]

\* Leaving the innermost scope: how = "normal" at the end of the body,
\* "exception" when the body raised.
ExitScope(how) ==
    LET frame == scopes[Len(scopes)]
        scs == SubSeq(scopes, 1, Len(scopes) - 1)
        \* the handler lists the loggers have when the scope is left
        temporary == [i \in DOMAIN frame.loggers |-> lists[lhandlers[frame.loggers[i]]]]
        lh == RestoreHandlers(lhandlers, frame.loggers, frame.original_handlers_list, how)
        st2 == Collect([lh |-> lh, lists |-> lists, hobj |-> hobj], scs)
    IN /\ scopes' = scs
       /\ lhandlers' = st2.lh
       /\ lists' = st2.lists
       /\ hobj' = st2.hobj
       /\ UNCHANGED bodyOps
       /\ last' = [NoEvent EXCEPT !.op = "exit", !.how = how,
                                  !.loggers = frame.loggers, !.pre = frame.pre,
                                  !.temporary = temporary,
                                  !.pbar = pbar_exit(frame.pbar)]

\* with logging_redirect_tqdm(loggers, tqdm_class): (logging.py:82-96)
logging_redirect_tqdm_enter(loggersArg, tqdm_class, failAt) ==
    EnterScope(loggersArg, tqdm_class, failAt, NoBar)

\* the end of that with block (logging.py:97-99)
logging_redirect_tqdm_exit(how) ==
    /\ scopes # <<>>
    /\ ~scopes[Len(scopes)].pbar.acquired
    /\ ExitScope(how)

\* with tqdm_logging_redirect(loggers=..., tqdm_class=...) as pbar: (logging.py:121-126)
tqdm_logging_redirect_enter(loggersArg, tqdm_class, failAt) ==
    EnterScope(loggersArg, tqdm_class, failAt, [acquired |-> TRUE, exits |-> 0])

\* the end of that with block: the inner scope restores, then the
\* progress-bar instance exits (logging.py:124-126)
tqdm_logging_redirect_exit(how) ==
    /\ scopes # <<>>
    /\ scopes[Len(scopes)].pbar.acquired
    /\ ExitScope(how)

\* logger.addHandler(h): appends to the list logger.handlers refers to,
\* unless the list holds h already.
addHandler(l, h) ==
    /\ h \notin Range(lists[lhandlers[l]])
    /\ lists' = [lists EXCEPT ![lhandlers[l]] = Append(@, h)]
    /\ bodyOps < MaxBodyOps
    /\ bodyOps' = bodyOps + 1
    /\ last' = [NoEvent EXCEPT !.op = "addHandler"]
    /\ UNCHANGED <<hobj, lhandlers, scopes>>

\* logger.removeHandler(h): removes h from the list logger.handlers refers to.
removeHandler(l, h) ==
    /\ h \in Range(lists[lhandlers[l]])
    /\ lists' = [lists EXCEPT ![lhandlers[l]] = SelectSeq(@, LAMBDA x : x # h)]
    /\ bodyOps < MaxBodyOps
    /\ bodyOps' = bodyOps + 1
    /\ last' = [NoEvent EXCEPT !.op = "removeHandler"]
    /\ UNCHANGED <<hobj, lhandlers, scopes>>

\* logger.log(level, msg): the record goes to the logger's handlers; fail is
\* what the redirecting handler's emit meets, if the record reaches one.
Log(l, level, msg, fail) ==
    LET handlers == lists[lhandlers[l]]
        reaches == \E i \in DOMAIN handlers :
                       /\ hobj[handlers[i]].cls = "_TqdmLoggingHandler"
                       /\ level >= hobj[handlers[i]].level
        acc == callHandlers(handlers, hobj, level, msg, fail, 1,
                            [received |-> <<>>, direct |-> {}, writes |-> <<>>,
                             handleError |-> 0, raised |-> "none"])
    IN /\ fail[1] # "none" => reaches
       /\ last' = [NoEvent EXCEPT !.op = "log", !.logger = l, !.level = level,
                                  !.msg = msg, !.fail = fail,
                                  !.received = acc.received, !.direct = acc.direct,
                                  !.writes = acc.writes,
                                  !.handleError = acc.handleError,
                                  !.raised = acc.raised]
       /\ UNCHANGED <<hobj, lists, lhandlers, scopes, bodyOps>>

----------------------------------------------------------------------------
(* Bounds of the adapter model *)

MaxLen == 2
MaxIterables == 2
MaxRepeat == 2
MaxImports == 1

----------------------------------------------------------------------------
(* aliases.py: the environment selector *)

\* What a probing step may raise: an ordinary error or an interruption.
ProbeFaults ==
    {<<"none", "none">>} \cup
    {<<step, e>> : step \in {"get_ipython", "import_notebook", "warn"},
                   e \in {"Exception"} \cup Interruptions}

\* The environment: whether IPython is imported and what its shell is
\* (sys.modules["IPython"].get_ipython().config), whether tldm.notebook found
\* ipywidgets (IProgress), whether warnings are shown or turned into errors,
\* and the probing step that raises on its own account, if any.
Envs ==
    [ipython : {"not_imported", "no_shell", "console", "kernel"},
     widgets : {"available", "missing"},
     warnings : {"shown", "error"},
     fault : ProbeFaults]

TerminalEnv == [ipython |-> "not_imported", widgets |-> "missing", warnings |-> "shown", fault |-> <<"none", "none">>]

NotebookEnv == [ipython |-> "kernel", widgets |-> "available", warnings |-> "shown", fault |-> <<"none", "none">>]

Returned(cls, warned) == [result |-> cls, raised |-> "none", warned |-> warned]

Propagated(e, warned) == [result |-> None, raised |-> e, warned |-> warned]

\* aliases.py:58-60: except Exception: return tldm
Caught(e, warned) == IF e \in Interruptions THEN Propagated(e, warned) ELSE Returned("tldm", warned)

FaultAt(e, step) == IF e.fault[1] = step THEN e.fault[2] ELSE "none"

get_auto_tldm_ignoring_widgets(e) ==
    IF e.ipython = "not_imported" THEN Caught("Exception", 0)
    ELSE IF FaultAt(e, "get_ipython") # "none" THEN Caught(FaultAt(e, "get_ipython"), 0)
    ELSE IF e.ipython \in {"no_shell", "console"} THEN Caught("Exception", 0)
    ELSE IF FaultAt(e, "import_notebook") # "none" THEN Caught(FaultAt(e, "import_notebook"), 0)
    ELSE Returned("notebook_tldm", 0)

\* _get_auto_tldm (aliases.py:24-60)
get_auto_tldm(e) ==
    \* sys.modules["IPython"]: KeyError
    IF e.ipython = "not_imported" THEN Caught("Exception", 0)
    \* get_ipython() itself raises
    ELSE IF FaultAt(e, "get_ipython") # "none" THEN Caught(FaultAt(e, "get_ipython"), 0)
    \* get_ipython() is None (AttributeError), or no IPKernelApp (ImportError)
    ELSE IF e.ipython \in {"no_shell", "console"} THEN Caught("Exception", 0)
    \* from .notebook import WARN_NOIPYW
    ELSE IF FaultAt(e, "import_notebook") # "none" THEN Caught(FaultAt(e, "import_notebook"), 0)
    ELSE IF e.widgets = "missing"
    THEN \* warn(...) raises by itself, or raises the warning as an error, or
         \* returns and ImportError("ipywidgets") is raised
         IF FaultAt(e, "warn") # "none" THEN Caught(FaultAt(e, "warn"), 0)
         ELSE IF e.warnings = "error" THEN Caught("Exception", 0)
         ELSE Caught("Exception", 1)
    ELSE Returned("notebook_tldm", 0)

NoSelection == [runs |-> 0, result |-> None, raised |-> "none", warned |-> 0]

\* import tldm: aliases.py:64 runs the selector while the module is loaded; an
\* exception it lets through fails the import.
ImportAliases ==
    LET r == get_auto_tldm(env)
    IN /\ ~imported
       /\ selector.runs < MaxImports
       /\ selector' = [runs |-> selector.runs + 1, result |-> r.result,
                       raised |-> r.raised, warned |-> selector.warned + r.warned]
       /\ imported' = (r.raised = "none")
       /\ auto_tldm' = r.result
       /\ UNCHANGED <<env, gen, res>>

----------------------------------------------------------------------------
(* aliases.py: tproduct *)

\* The iterables a caller passes, each with n items 1..n: a list; a generator,
\* which has neither __len__ nor __length_hint__; an object whose
\* __length_hint__ returns a non-integer; a generator that raises when it is
\* iterated.
Iterables ==
    {[kind |-> k, n |-> n] : k \in {"list", "generator"}, n \in 0..MaxLen}
    \cup {[kind |-> k, n |-> 1] : k \in {"badhint", "raises"}}

IterableLists == UNION {[1..m -> Iterables] : m \in 0..MaxIterables}

Items(x) == [i \in 1..x.n |-> i]

\* The totals a caller passes: none (the key is absent), or a number.
CallerTotals == {<<>>, <<7>>}

\* operator.length_hint(x): len(x), else type(x).__length_hint__(x), else the
\* default 0; [ok |-> FALSE] is the TypeError for a hint that is no integer.
length_hint(x) ==
    IF x.kind = "list" THEN [ok |-> TRUE, value |-> x.n]
    ELSE IF x.kind = "badhint" THEN [ok |-> FALSE, value |-> 0]
    ELSE [ok |-> TRUE, value |-> 0]

RECURSIVE ProductOfLens(_, _)
ProductOfLens(iterables, i) ==
    IF i > Len(iterables) THEN 1
    ELSE length_hint(iterables[i]).value * ProductOfLens(iterables, i + 1)

RECURSIVE Power(_, _)
Power(b, e) == IF e = 0 THEN 1 ELSE b * Power(b, e - 1)

TotalKwargWithoutRepeat(iterables, repeat, total) ==
    IF \E i \in DOMAIN iterables : ~length_hint(iterables[i]).ok THEN total
    ELSE IF total # <<>> THEN total
    ELSE <<ProductOfLens(iterables, 1)>>

\* aliases.py:128-137: the total keyword the constructor gets; <<>> when the
\* key is absent.
TotalKwarg(iterables, repeat, total) ==
    IF \E i \in DOMAIN iterables : ~length_hint(iterables[i]).ok THEN total
    ELSE IF total # <<>> THEN total
    ELSE <<Power(ProductOfLens(iterables, 1), repeat)>>

\* itertools.product(*iterables, repeat=repeat): the pools are the iterables'
\* items, repeated; each pool extends every tuple built so far, last pool
\* varying fastest.
RECURSIVE ProductFrom(_, _, _)
ProductFrom(pools, i, result) ==
    IF i > Len(pools) THEN result
    ELSE LET pool == pools[i]
             m == Len(pool)
         IN ProductFrom(pools, i + 1,
                [k \in 1..(Len(result) * m) |->
                    Append(result[((k - 1) \div m) + 1], pool[((k - 1) % m) + 1])])

RECURSIVE Repeated(_, _)
Repeated(pools, repeat) == IF repeat = 0 THEN <<>> ELSE pools \o Repeated(pools, repeat - 1)

product(iterables, repeat) ==
    ProductFrom(Repeated([i \in DOMAIN iterables |-> Items(iterables[i])], repeat), 1, << <<>> >>)

\* The keys of the keyword arguments a caller passes: a configuration key,
\* and tldm_class when the caller passes a class.
CallKeys(tldm_class) == {"desc"} \cup (IF tldm_class = None THEN {} ELSE {"tldm_class"})

kwargs_get(keys, k) == keys

\* kwargs.pop(k, default): the key is taken out of the keyword arguments
\* (aliases.py:97, 124-125)
kwargs_pop(keys, k) == keys \ {k}

\* aliases.py:123-137: the keys of the keyword arguments tproduct passes to
\* the constructor
tproduct_kwargs(iterables, repeat, total, tldm_class) ==
    LET tldm_kwargs == CallKeys(tldm_class) \cup {"repeat"} \cup (IF total = <<>> THEN {} ELSE {"total"})
        kwargs == kwargs_pop(kwargs_pop(tldm_kwargs, "repeat"), "tldm_class")
    IN kwargs \cup (IF TotalKwarg(iterables, repeat, total) = <<>> THEN {} ELSE {"total"})

NoPbar == [cls |-> None, keys |-> {}, total |-> <<>>, n |-> 0, enters |-> 0, exits |-> 0]

NoGen ==
    [state |-> "none", how |-> "none", iterables |-> <<>>, repeat |-> 0,
     total |-> <<>>, tldm_class |-> None, bar |-> NoPbar, it |-> <<>>, yielded |-> 0,
     pulled |-> <<>>, out |-> <<>>]

ExitOnlyWhenExhausted(bar, how) == IF how = "exhausted" THEN [bar EXCEPT !.exits = @ + 1] ELSE bar

\* aliases.py:138: leaving the with block, however it is left, runs the
\* progress bar's __exit__
bar_exit(bar, how) == [bar EXCEPT !.exits = @ + 1]

\* tproduct(*iterables, repeat=..., total=..., tldm_class=...): a generator
\* function, so the call runs none of its body (aliases.py:115)
tproduct(iterables, repeat, total, tldm_class) ==
    /\ imported
    /\ gen.state = "none"
    /\ gen' = [NoGen EXCEPT !.state = "created", !.iterables = iterables,
                            !.repeat = repeat, !.total = total, !.tldm_class = tldm_class]
    /\ UNCHANGED <<env, imported, auto_tldm, selector, res>>

\* The generator from the for statement on: the next tuple is yielded, or the
\* loop ends and the with block is left (aliases.py:140-141).
Resume(g, bar, it) ==
    IF it = <<>>
    THEN [g EXCEPT !.state = "done", !.how = "exhausted", !.bar = bar_exit(bar, "exhausted"), !.it = <<>>]
    ELSE [g EXCEPT !.state = "suspended", !.bar = bar, !.it = Tail(it), !.yielded = @ + 1,
                   !.out = Append(@, Head(it))]

\* The first next(): the body runs from its first line to the first yield
\* (aliases.py:123-141).
gen_start ==
    LET tldm_class == IF gen.tldm_class = None THEN auto_tldm ELSE gen.tldm_class
        t == [cls |-> tldm_class,
              keys |-> tproduct_kwargs(gen.iterables, gen.repeat, gen.total, gen.tldm_class),
              total |-> TotalKwarg(gen.iterables, gen.repeat, gen.total),
              n |-> 0, enters |-> 1, exits |-> 0]
        \* itertools.product reads every iterable to its end, in order, before
        \* it produces the first tuple
        pulled == [i \in DOMAIN gen.iterables |->
                      IF \E j \in 1..i : gen.iterables[j].kind = "raises" THEN 0
                      ELSE gen.iterables[i].n]
        g == [gen EXCEPT !.pulled = pulled]
    IN /\ gen.state = "created"
       /\ gen' = IF \E i \in DOMAIN gen.iterables : gen.iterables[i].kind = "raises"
                 THEN [g EXCEPT !.state = "done", !.how = "raised", !.bar = bar_exit(t, "raised")]
                 ELSE Resume(g, t, product(gen.iterables, gen.repeat))
       /\ UNCHANGED <<env, imported, auto_tldm, selector, res>>

gen_next_without_update(updateRaises) ==
    /\ gen.state = "suspended"
    /\ gen' = IF updateRaises
              THEN [gen EXCEPT !.state = "done", !.how = "raised", !.bar = bar_exit(gen.bar, "raised")]
              ELSE Resume(gen, gen.bar, gen.it)
    /\ UNCHANGED <<env, imported, auto_tldm, selector, res>>

\* A later next(): t.update() runs, which may raise, and the loop goes on
\* (aliases.py:140-142).
gen_next(updateRaises) ==
    /\ gen.state = "suspended"
    /\ gen' = IF updateRaises
              THEN [gen EXCEPT !.state = "done", !.how = "raised", !.bar = bar_exit(gen.bar, "raised")]
              ELSE Resume(gen, [gen.bar EXCEPT !.n = @ + 1], gen.it)
    /\ UNCHANGED <<env, imported, auto_tldm, selector, res>>

\* close(), or an exception thrown in by the consumer: either is raised at the
\* yield and leaves the with block; a generator that never started just ends.
gen_close(how) ==
    /\ gen.state \in {"created", "suspended"}
    /\ gen' = IF gen.state = "created"
              THEN [gen EXCEPT !.state = "done", !.how = how]
              ELSE [gen EXCEPT !.state = "done", !.how = how, !.bar = bar_exit(gen.bar, how)]
    /\ UNCHANGED <<env, imported, auto_tldm, selector, res>>

----------------------------------------------------------------------------
(* aliases.py: tenumerate, tzip, tmap, trange *)

\* The iterables a caller passes to tenumerate, tzip and tmap, of n items each.
Inputs == {[kind |-> "list", n |-> n] : n \in 0..MaxLen}

InputLists == UNION {[1..m -> Inputs] : m \in 1..MaxIterables}

\* The items of the j-th iterable of a call: range(n) counts from 0, the
\* items of a list tell which iterable they come from.
ItemsOf(inputs, j) ==
    [i \in 1..inputs[j].n |-> IF inputs[j].kind = "range" THEN i - 1 ELSE 10 * j + i]

\* The values of start a caller passes to tenumerate.
Starts == {-1, 0, 2}

\* When a progress-bar class counts an item of the iterable it wraps: as it
\* yields the item, when it is resumed after the item, or never (the class
\* of tests/test_lazy_imports.py:15-22 iterates the iterable itself).
Countings == {"on_yield", "on_resume", "never"}

NoWrapped == [cls |-> None, keys |-> {}, n |-> 0]

NoRes ==
    [op |-> "none", state |-> "none", inputs |-> <<>>, start |-> 0, tldm_class |-> None,
     counting |-> "never", bar |-> NoWrapped, pulled |-> <<>>, out |-> <<>>,
     requests |-> 0, env0 |-> <<>>]

\* next() on the iterator of a progress bar that wraps an iterable of which
\* `pulled` items were read: the bar reads one more item and yields it
\* unchanged, counting as its class counts.
bar_next(bar, counting, items, pulled) ==
    LET n1 == IF counting = "on_resume" /\ pulled > 0 THEN bar.n + 1 ELSE bar.n
        ok == pulled < Len(items)
        n2 == IF ok /\ counting = "on_yield" THEN n1 + 1 ELSE n1
    IN [bar |-> [bar EXCEPT !.n = n2], ok |-> ok,
        pulled |-> IF ok THEN pulled + 1 ELSE pulled,
        value |-> IF ok THEN <<items[pulled + 1]>> ELSE <<>>]

\* zip over the iterables from the j-th on: one item is read from each in
\* turn, and the first that is exhausted ends the zip.
RECURSIVE zip_rest(_, _, _)
zip_rest(inputs, st, j) ==
    IF j > Len(inputs) \/ ~st.ok THEN st
    ELSE LET items == ItemsOf(inputs, j)
             k == st.pulled[j]
         IN IF k < Len(items)
            THEN zip_rest(inputs, [st EXCEPT !.pulled[j] = k + 1,
                                             !.value = Append(@, items[k + 1])], j + 1)
            ELSE [st EXCEPT !.ok = FALSE]

zip_next_eager(inputs, bar, counting, pulled) ==
    LET b == bar_next(bar, counting, ItemsOf(inputs, 1), pulled[1])
        all == [j \in DOMAIN inputs |-> IF j = 1 THEN b.pulled ELSE inputs[j].n]
        st == zip_rest(inputs, [b EXCEPT !.pulled = [pulled EXCEPT ![1] = b.pulled]], 2)
    IN [st EXCEPT !.pulled = all]

\* next() on zip(tldm_class(iter1, **kwargs), *iter2plus) (aliases.py:100)
zip_next(inputs, bar, counting, pulled) ==
    LET b == bar_next(bar, counting, ItemsOf(inputs, 1), pulled[1])
    IN zip_rest(inputs, [b EXCEPT !.pulled = [pulled EXCEPT ![1] = b.pulled]], 2)

enumerate_from_zero(start, count, item) == <<count, item>>

\* next() on enumerate(..., start) after count pairs (aliases.py:83)
enumerate_next(start, count, item) == <<start + count, item>>

\* tenumerate(iterable, start, tldm_class=...): the class is chosen and the
\* progress bar is constructed in the call; total=total is always passed
\* (aliases.py:81-83)
tenumerate(iterable, start, tldm_class, counting) ==
    /\ imported
    /\ res.state = "none"
    /\ res' = [NoRes EXCEPT !.op = "tenumerate", !.state = "created",
                            !.inputs = <<iterable>>, !.start = start,
                            !.tldm_class = tldm_class, !.counting = counting,
                            !.bar = [cls |-> IF tldm_class = None THEN auto_tldm ELSE tldm_class,
                                     keys |-> {"total"} \cup CallKeys(None), n |-> 0],
                            !.pulled = <<0>>]
    /\ UNCHANGED <<env, imported, auto_tldm, selector, gen>>

\* tzip(iter1, *iter2plus, tldm_class=...): a generator function, so the
\* call runs none of its body (aliases.py:86)
tzip(inputs, tldm_class, counting) ==
    /\ imported
    /\ res.state = "none"
    /\ res' = [NoRes EXCEPT !.op = "tzip", !.state = "created", !.inputs = inputs,
                            !.tldm_class = tldm_class, !.counting = counting,
                            !.pulled = [j \in DOMAIN inputs |-> 0]]
    /\ UNCHANGED <<env, imported, auto_tldm, selector, gen>>

\* tmap(function, *sequences, tldm_class=...): a generator function over
\* tzip(*sequences, **tldm_kwargs) (aliases.py:103-112)
tmap(inputs, tldm_class, counting) ==
    /\ imported
    /\ res.state = "none"
    /\ res' = [NoRes EXCEPT !.op = "tmap", !.state = "created", !.inputs = inputs,
                            !.tldm_class = tldm_class, !.counting = counting,
                            !.pulled = [j \in DOMAIN inputs |-> 0]]
    /\ UNCHANGED <<env, imported, auto_tldm, selector, gen>>

\* trange(n, **kwargs): auto_tldm(range(n), **kwargs); tldm_class is the
\* tldm_class keyword the caller passes, if any (aliases.py:145-147)
trange(n, tldm_class, counting) ==
    /\ imported
    /\ res.state = "none"
    /\ res' = [NoRes EXCEPT !.op = "trange", !.state = "created",
                            !.inputs = <<[kind |-> "range", n |-> n]>>,
                            !.tldm_class = tldm_class, !.counting = counting,
                            !.bar = [cls |-> auto_tldm, keys |-> CallKeys(tldm_class), n |-> 0],
                            !.pulled = <<0>>]
    /\ UNCHANGED <<env, imported, auto_tldm, selector, gen>>

\* next() on the result of one of these calls. The first next() on a tzip or
\* tmap result runs the body of tzip from its first line: tldm_class is
\* popped, the class is chosen and the progress bar is constructed
\* (aliases.py:96-100).
res_next ==
    LET zipped == res.op \in {"tzip", "tmap"}
        bar == IF zipped /\ res.state = "created"
               THEN [cls |-> IF res.tldm_class = None THEN auto_tldm ELSE res.tldm_class,
                     keys |-> kwargs_pop(CallKeys(res.tldm_class), "tldm_class"), n |-> 0]
               ELSE res.bar
        r == IF zipped THEN zip_next(res.inputs, bar, res.counting, res.pulled)
             ELSE LET b == bar_next(bar, res.counting, ItemsOf(res.inputs, 1), res.pulled[1])
                  IN [b EXCEPT !.pulled = <<b.pulled>>]
        value == CASE res.op = "tenumerate" -> enumerate_next(res.start, Len(res.out), r.value[1])
                   [] res.op = "tzip" -> r.value
                   [] res.op = "tmap" -> <<"function", r.value>>
                   [] OTHER -> r.value[1]
    IN /\ res.state \in {"created", "suspended"}
       /\ res' = [res EXCEPT !.state = IF r.ok THEN "suspended" ELSE "done",
                             !.requests = @ + 1,
                             !.env0 = IF res.requests = 0 THEN <<env>> ELSE @,
                             !.bar = r.bar, !.pulled = r.pulled,
                             !.out = IF r.ok THEN Append(@, value) ELSE @]
       /\ UNCHANGED <<env, imported, auto_tldm, selector, gen>>

\* The environment changes while the program runs: IPython is imported and a
\* kernel starts, or the other way round.
SetEnv(e) ==
    /\ e # env
    /\ env' = e
    /\ UNCHANGED <<imported, auto_tldm, selector, gen, res>>

AdapterIdle ==
    /\ env = TerminalEnv
    /\ imported = FALSE
    /\ auto_tldm = None
    /\ selector = NoSelection
    /\ gen = NoGen
    /\ res = NoRes

----------------------------------------------------------------------------
(* Specifications *)

LoggingObjects ==
    /\ hobj = [h \in HandlerIds |-> IF h \in PreIds THEN PreHandlers[h] ELSE FreeHandler]
    /\ \E init \in [Loggers -> InitialHandlerLists] :
           lists = [id \in ListIds |-> IF id \in Loggers THEN init[id] ELSE <<>>]
    /\ lhandlers = [l \in Loggers |-> l]
    /\ scopes = <<>>
    /\ bodyOps = 0
    /\ last = NoEvent

InitLogging == LoggingObjects /\ AdapterIdle

\* No logger has a handler and no scope is entered.
LoggingIdle ==
    /\ hobj = [h \in HandlerIds |-> IF h \in PreIds THEN PreHandlers[h] ELSE FreeHandler]
    /\ lists = [id \in ListIds |-> <<>>]
    /\ lhandlers = [l \in Loggers |-> l]
    /\ scopes = <<>>
    /\ bodyOps = 0
    /\ last = NoEvent

\* Scopes of both kinds, with the default progress-bar class, around
\* bodies that change handlers through the loggers.
NextLogging ==
    \/ \E ls \in LoggersArgs, failAt \in 0..NumLoggers :
           Len(scopes) < MaxScopes /\ logging_redirect_tqdm_enter(ls, "std_tldm", failAt)
    \/ \E how \in {"normal", "exception"} : logging_redirect_tqdm_exit(how)
    \/ \E ls \in LoggersArgs :
           Len(scopes) < MaxScopes /\ tqdm_logging_redirect_enter(ls, "std_tldm", 0)
    \/ \E how \in {"normal", "exception"} : tqdm_logging_redirect_exit(how)
    \/ \E l \in Loggers, h \in PreIds : addHandler(l, h)
    \/ \E l \in Loggers, h \in PreIds : removeHandler(l, h)

SpecLogging == InitLogging /\ [][NextLogging /\ UNCHANGED advars]_vars

\* Scopes with either progress-bar class around bodies that log records.
NextRecords ==
    \/ \E ls \in LoggersArgs, c \in TqdmClasses :
           Len(scopes) < MaxScopes /\ logging_redirect_tqdm_enter(ls, c, 0)
    \/ \E how \in {"normal", "exception"} : logging_redirect_tqdm_exit(how)
    \/ \E l \in Loggers, level \in Levels, msg \in Msgs, fail \in Failures : Log(l, level, msg, fail)

SpecRecords == InitLogging /\ [][NextRecords /\ UNCHANGED advars]_vars

\* Scopes inside scopes, left innermost first.
NextNested ==
    \/ \E ls \in LoggersArgs :
           Len(scopes) < MaxNested /\ logging_redirect_tqdm_enter(ls, "std_tldm", 0)
    \/ \E how \in {"normal", "exception"} : logging_redirect_tqdm_exit(how)

SpecNested == InitLogging /\ [][NextNested /\ UNCHANGED advars]_vars


\* Every environment, and the import of the package in it.
InitSelector ==
    /\ LoggingIdle
    /\ env \in Envs
    /\ imported = FALSE
    /\ auto_tldm = None
    /\ selector = NoSelection
    /\ gen = NoGen
    /\ res = NoRes

NextSelector == ImportAliases

SpecSelector == InitSelector /\ [][NextSelector /\ UNCHANGED logvars]_vars

\* A terminal or a notebook; the package is imported and tproduct is called
\* and consumed.
InitAdapter ==
    /\ LoggingIdle
    /\ env \in {TerminalEnv, NotebookEnv}
    /\ imported = FALSE
    /\ auto_tldm = None
    /\ selector = NoSelection
    /\ gen = NoGen
    /\ res = NoRes

NextAdapter ==
    \/ ImportAliases
    \/ \E its \in IterableLists, repeat \in 0..MaxRepeat, total \in CallerTotals,
          c \in {None, "MockTldm"} : tproduct(its, repeat, total, c)
    \/ gen_start
    \/ \E updateRaises \in BOOLEAN : gen_next(updateRaises)
    \/ \E how \in {"closed", "thrown"} : gen_close(how)

SpecAdapter == InitAdapter /\ [][NextAdapter /\ UNCHANGED logvars]_vars

\* A terminal or a notebook, which may change; the package is imported and
\* one adapter at a time is called and its result consumed, as far as the
\* consumer likes.
NextIterate ==
    \/ ImportAliases
    \/ \E e \in {TerminalEnv, NotebookEnv} : SetEnv(e)
    \/ \E x \in Inputs, start \in Starts, c \in {None, "MockTldm"}, k \in Countings :
           gen.state = "none" /\ tenumerate(x, start, c, k)
    \/ \E xs \in InputLists, c \in {None, "MockTldm"}, k \in Countings :
           gen.state = "none" /\ tzip(xs, c, k)
    \/ \E xs \in InputLists, c \in {None, "MockTldm"}, k \in Countings :
           gen.state = "none" /\ tmap(xs, c, k)
    \/ \E n \in 0..MaxLen, c \in {None, "MockTldm"}, k \in Countings :
           gen.state = "none" /\ trange(n, c, k)
    \/ res_next
    \/ \E its \in InputLists, c \in {None, "MockTldm"} :
           res.state = "none" /\ tproduct(its, 1, <<>>, c)
    \/ gen_start
    \/ \E updateRaises \in BOOLEAN : gen_next(updateRaises)
    \/ \E how \in {"closed", "thrown"} : gen_close(how)

SpecIterate == InitAdapter /\ [][NextIterate /\ UNCHANGED logvars]_vars

----------------------------------------------------------------------------
(* The claims *)

\* A console handler as the claims define it: a stream handler whose stream
\* is stdout or stderr.
IsConsoleHandler(h) ==
    /\ hobj[h].cls \in {"StreamHandler", "FileHandler", "_TqdmLoggingHandler"}
    /\ hobj[h].stream \in {"stdout", "stderr"}

ConsoleHandlersOf(handlers) == SelectSeq(handlers, IsConsoleHandler)

NonConsoleHandlersOf(handlers) == SelectSeq(handlers, LAMBDA h : ~IsConsoleHandler(h))

HandlersOf(l) == lists[lhandlers[l]]

\* C1: after a logging_redirect_tqdm scope is left, at the end of its body or
\* by an exception raised in it, every redirected logger's handler list holds
\* the same handler objects in the same order as just before the scope was
\* entered.
C1_HandlersRestoredOnExit ==
    (last.op = "exit" /\ ~last.pbar.acquired) =>
        \A i \in DOMAIN last.loggers : HandlersOf(last.loggers[i]) = last.pre[i]

\* A scope over two loggers, one of them with a console handler, was left by
\* an exception.
C1_Witness ==
    /\ last.op = "exit"
    /\ last.how = "exception"
    /\ ~last.pbar.acquired
    /\ Len(last.loggers) = 2
    /\ \E i \in DOMAIN last.loggers : ConsoleHandlersOf(last.pre[i]) # <<>>

\* C2: while a scope is active, a record logged on a redirected logger that
\* the logger's console handler would have written (the record's level
\* reaches the handler's level and the record can be formatted) goes to the
\* scope's progress-bar class in exactly one write call, which carries the
\* message as that handler formats it and that handler's stream; no console
\* handler the logger had before entry writes it; and every other handler the
\* logger had before entry receives it when the record's level reaches its
\* level.
C2_ConsoleRecordsGoThroughWrite ==
    LET k == InnermostScope(scopes, last.logger)
        f == scopes[k]
        i == CHOOSE j \in DOMAIN f.loggers : f.loggers[j] = last.logger
        console == ConsoleHandlersOf(f.pre[i])
        c == console[1]
    IN (last.op = "log" /\ k # 0 /\ console # <<>> /\ last.level >= hobj[c].level
            /\ last.fail[1] # "format") =>
        /\ last.writes = << [cls |-> f.tqdm_class,
                             msg |-> Format(hobj[c].formatter, last.msg),
                             file |-> hobj[c].stream] >>
        /\ \A h \in Range(console) : h \notin last.direct
        /\ \A h \in Range(NonConsoleHandlersOf(f.pre[i])) :
               last.level >= hobj[h].level => h \in Range(last.received)

\* A record went through MockTldm.write on a logger whose file handler
\* received it too.
C2_Witness ==
    /\ last.op = "log"
    /\ InnermostScope(scopes, last.logger) # 0
    /\ Len(last.writes) = 1
    /\ last.writes[1].cls = "MockTldm"
    /\ last.writes[1].msg[1] = "fmtA"
    /\ \E h \in Range(last.received) : hobj[h].cls = "FileHandler"

\* C3: right after a scope is entered, each redirected logger's handlers are
\* its pre-entry handlers that are no console handlers, in their order,
\* followed by exactly one redirecting handler that did not exist before,
\* however many console handlers the logger had.
C3_HandlersAfterEnter ==
    last.op = "enter" =>
        \A i \in DOMAIN last.loggers :
            LET cur == HandlersOf(last.loggers[i])
                t == cur[Len(cur)]
            IN /\ cur # <<>>
               /\ SubSeq(cur, 1, Len(cur) - 1) = NonConsoleHandlersOf(last.pre[i])
               /\ hobj[t].cls = "_TqdmLoggingHandler"
               /\ t \notin PreIds
               /\ \A j \in DOMAIN last.pre : t \notin Range(last.pre[j])

\* A scope was entered over a logger with several console handlers and a
\* logger with none.
C3_Witness ==
    /\ last.op = "enter"
    /\ \E i \in DOMAIN last.loggers : Len(ConsoleHandlersOf(last.pre[i])) = 2
    /\ \E i \in DOMAIN last.loggers :
           /\ ConsoleHandlersOf(last.pre[i]) = <<>>
           /\ last.pre[i] # <<>>

\* C4: when every adapter call passes a progress-bar class, _get_auto_tldm
\* never runs, from the import of the package on.
C4_ExplicitClassNeverProbes ==
    (gen.state # "none" /\ gen.tldm_class # None) => selector.runs = 0

\* C5: a progress bar tproduct entered is exited exactly once when the
\* generator is done, whether it was exhausted, closed early or left by an
\* exception, and not before.
C5_BarReleasedExactlyOnce ==
    /\ gen.bar.exits <= gen.bar.enters
    /\ gen.state = "suspended" => (gen.bar.enters = 1 /\ gen.bar.exits = 0)
    /\ gen.state = "done" => gen.bar.exits = gen.bar.enters

\* The consumer closed the generator before the product was exhausted.
C5_Witness ==
    /\ gen.state = "done"
    /\ gen.how = "closed"
    /\ gen.it # <<>>
    /\ gen.bar.enters = 1
    /\ gen.bar.exits = 1

\* C6: when some input of tproduct has no length hint and the caller passed
\* no total, the constructor gets no total.
C6_NoHintNoTotal ==
    (/\ gen.bar.enters = 1
     /\ \E i \in DOMAIN gen.iterables : gen.iterables[i].kind = "generator"
     /\ gen.total = <<>>) => gen.bar.total = <<>>

RECURSIVE LenProduct(_, _)
LenProduct(iterables, i) ==
    IF i > Len(iterables) THEN 1 ELSE iterables[i].n * LenProduct(iterables, i + 1)

\* C7: when every input of tproduct has a length, the constructor gets the
\* product of the lengths raised to the power repeat as its total, or the
\* caller's total when the caller passed one.
C7_TotalIsProductPowerRepeat ==
    (gen.bar.enters = 1 /\ \A i \in DOMAIN gen.iterables : gen.iterables[i].kind = "list") =>
        gen.bar.total = IF gen.total # <<>> THEN gen.total
                        ELSE <<Power(LenProduct(gen.iterables, 1), gen.repeat)>>

\* Two lists of two items with repeat 2: the total is 16.
C7_Witness ==
    /\ gen.bar.enters = 1
    /\ gen.repeat = 2
    /\ gen.iterables = <<[kind |-> "list", n |-> 2], [kind |-> "list", n |-> 2]>>
    /\ gen.bar.total = <<16>>

\* C8: however a tqdm_logging_redirect scope is left, every logger's handler
\* list is as it was before entry and the progress-bar instance that was
\* yielded has been exited.
C8_CompanionUndoesBoth ==
    (last.op = "exit" /\ last.pbar.acquired) =>
        /\ \A i \in DOMAIN last.loggers : HandlersOf(last.loggers[i]) = last.pre[i]
        /\ last.pbar.exits = 1

\* A tqdm_logging_redirect scope over a logger with a console handler was
\* left by an exception.
C8_Witness ==
    /\ last.op = "exit"
    /\ last.how = "exception"
    /\ last.pbar.acquired
    /\ \E i \in DOMAIN last.loggers : ConsoleHandlersOf(last.pre[i]) # <<>>

\* C9: when a step of the redirecting handler's emit raises, a
\* KeyboardInterrupt or SystemExit reaches the caller and handleError is not
\* called; anything else is kept from the caller and handleError is called
\* once.
C9_EmitFailures ==
    (last.op = "log" /\ last.fail[1] # "none") =>
        IF last.fail[2] \in {"KeyboardInterrupt", "SystemExit"}
        THEN last.raised = last.fail[2] /\ last.handleError = 0
        ELSE last.raised = "none" /\ last.handleError = 1

\* The flush raised a BaseException that is no interruption.
C9_Witness ==
    /\ last.op = "log"
    /\ last.fail = <<"flush", "GeneratorExit">>
    /\ last.handleError = 1

\* The probing step the selector reaches and that raises, or "none".
ProbeRaised(e) ==
    IF e.ipython = "not_imported" THEN "none"
    ELSE IF e.fault[1] = "get_ipython" THEN e.fault[2]
    ELSE IF e.ipython # "kernel" THEN "none"
    ELSE IF e.fault[1] = "import_notebook" THEN e.fault[2]
    ELSE IF e.widgets = "missing" /\ e.fault[1] = "warn" THEN e.fault[2]
    ELSE "none"

ExpectedClass(e) ==
    IF e.ipython = "kernel" /\ e.widgets = "available" /\ ProbeRaised(e) = "none"
    THEN "notebook_tldm" ELSE "tldm"

\* C10 as claimed: the selector never raises and returns the notebook class
\* exactly when a kernel is detected and the widget backend is available, the
\* standard class otherwise, whatever a probing step raises.
C10_NeverRaises ==
    selector.runs > 0 => (selector.raised = "none" /\ selector.result = ExpectedClass(env))

\* C10 as amended: a KeyboardInterrupt or SystemExit raised by a probing step
\* propagates; in every other case the selector returns a class, the
\* notebook class exactly when a kernel is detected, the widget backend is
\* available and no probing step raises, the standard class otherwise.
C10_RaisesOnlyInterruptions ==
    selector.runs > 0 =>
        IF ProbeRaised(env) \in {"KeyboardInterrupt", "SystemExit"}
        THEN selector.raised = ProbeRaised(env) /\ selector.result = None
        ELSE selector.raised = "none" /\ selector.result = ExpectedClass(env)

\* In a kernel without the widget backend, with warnings turned into errors,
\* the standard class was selected.
C10_Witness ==
    /\ selector.runs > 0
    /\ env.ipython = "kernel"
    /\ env.widgets = "missing"
    /\ env.warnings = "error"
    /\ env.fault[1] = "none"
    /\ selector.result = "tldm"

\* The elements the consumer has taken from the result of a tenumerate, tzip
\* or tmap call, and from each of its inputs; the consumer takes no more.
PrefixOfInputs ==
    (res.op \in {"tenumerate", "tzip", "tmap"} /\ res.state \in {"created", "suspended"}) =>
        /\ \A j \in DOMAIN res.pulled : res.pulled[j] <= Len(res.out)
        /\ res.bar.n <= Len(res.out)

\* C11 as claimed: after the consumer has taken the first k elements of the
\* result of tenumerate, tzip, tmap or tproduct, at most k items were read
\* from each input iterable and the progress count is at most k.
C11_PrefixOnly ==
    /\ PrefixOfInputs
    /\ gen.state = "suspended" =>
           /\ \A j \in DOMAIN gen.pulled : gen.pulled[j] <= gen.yielded
           /\ gen.bar.n <= gen.yielded

\* C11 as amended: that holds of tenumerate, tzip and tmap; tproduct keeps
\* the progress count at most k, but has read every input iterable to its end
\* by the time it delivers its first tuple.
C11_PrefixOnlyButProduct ==
    /\ PrefixOfInputs
    /\ gen.state = "suspended" =>
           /\ \A j \in DOMAIN gen.pulled : gen.pulled[j] = gen.iterables[j].n
           /\ gen.bar.n <= gen.yielded

\* One tuple was taken from a tzip over two lists of two items: one item of
\* each list was read and the count is 1.
C11_Witness ==
    /\ res.op = "tzip"
    /\ res.state = "suspended"
    /\ res.inputs = <<[kind |-> "list", n |-> 2], [kind |-> "list", n |-> 2]>>
    /\ res.out = << <<11, 21>> >>
    /\ res.pulled = <<1, 1>>
    /\ res.bar.n = 1

\* Iteration of an adapter result that was given no class has begun.
AutoIterationBegun ==
    \/ res.requests > 0 /\ res.tldm_class = None
    \/ gen.bar.enters > 0 /\ gen.tldm_class = None

\* C12: the selector has not run before the iteration of an adapter result
\* that was given no class begins, neither at the import of the package nor
\* at the adapter call; and the class such an iteration uses is the one the
\* selector returns for the environment as it is when the iteration begins.
C12_SelectorRunsWhenIterationBegins ==
    /\ ~AutoIterationBegun => selector.runs = 0
    /\ (res.requests > 0 /\ res.tldm_class = None) =>
           res.bar.cls = get_auto_tldm(res.env0[1]).result

\* C13: the pairs tenumerate(S, start) has yielded are (start + i, S[i]) for
\* i = 0, 1, ... in order, and all len(S) of them once the result is
\* exhausted, whatever start is and whichever progress-bar class wraps S.
C13_EnumeratesFromStart ==
    res.op = "tenumerate" =>
        LET S == ItemsOf(res.inputs, 1)
        IN /\ Len(res.out) <= Len(S)
           /\ \A i \in 0..(Len(res.out) - 1) : res.out[i + 1] = <<res.start + i, S[i + 1]>>
           /\ res.state = "done" => Len(res.out) = Len(S)

\* tenumerate over a list of two items with start -1 and the auto-selected
\* class was exhausted.
C13_Witness ==
    /\ res.op = "tenumerate"
    /\ res.state = "done"
    /\ res.tldm_class = None
    /\ res.start = -1
    /\ res.out = << <<-1, 11>>, <<0, 12>> >>

\* C14: right after a scope is entered, the redirecting handler of each
\* redirected logger has the formatter, the level and the stream of the
\* first console handler among the logger's pre-entry handlers, or, when
\* there is none, no formatter, level NOTSET and the stream stderr.
C14_RedirectingHandlerCopiesConsole ==
    last.op = "enter" =>
        \A i \in DOMAIN last.loggers :
            LET cur == HandlersOf(last.loggers[i])
                t == hobj[cur[Len(cur)]]
                console == ConsoleHandlersOf(last.pre[i])
                c == hobj[console[1]]
            IN IF console # <<>>
               THEN t.formatter = c.formatter /\ t.level = c.level /\ t.stream = c.stream
               ELSE t.formatter = None /\ t.level = 0 /\ t.stream = "stderr"

\* A scope was entered over a logger whose handlers were the console handler
\* on stdout and then the console handler on stderr: the redirecting handler
\* writes to stdout at level 10.
C14_Witness ==
    /\ last.op = "enter"
    /\ \E i \in DOMAIN last.loggers :
           LET cur == HandlersOf(last.loggers[i])
           IN /\ last.pre[i] = <<3, 1>>
              /\ hobj[cur[Len(cur)]].stream = "stdout"
              /\ hobj[cur[Len(cur)]].level = 10

\* The progress bar of the result was constructed from the class the caller
\* passed, and tldm_class is no key of the constructor's keyword arguments.
OverrideConstructs(r) ==
    (r.tldm_class # None /\ r.bar.cls # None) =>
        /\ r.bar.cls = r.tldm_class
        /\ r.bar.cls # auto_tldm
        /\ "tldm_class" \notin r.bar.keys

\* C15 as claimed: whichever of tenumerate, tzip, tmap, tproduct and trange
\* is passed a progress-bar class, the progress bar is constructed from that
\* class, never from the auto-selected one, and the constructor is not given
\* tldm_class as a key.
C15_OverrideWins ==
    /\ OverrideConstructs(res)
    /\ OverrideConstructs(gen)

\* C15 as amended: that holds of tenumerate, tzip, tmap and tproduct; trange
\* has no such parameter: it constructs the progress bar from the
\* auto-selected class and passes tldm_class on to the constructor as a key.
C15_OverrideWinsButTrange ==
    /\ res.op # "trange" => OverrideConstructs(res)
    /\ OverrideConstructs(gen)
    /\ (res.op = "trange" /\ res.tldm_class # None) =>
           /\ res.bar.cls = auto_tldm
           /\ "tldm_class" \in res.bar.keys

\* The iteration of a tmap result that was passed MockTldm has begun: the
\* progress bar is a MockTldm and its constructor got the key desc only.
C15_Witness ==
    /\ res.op = "tmap"
    /\ res.tldm_class = "MockTldm"
    /\ res.requests > 0
    /\ res.bar.cls = "MockTldm"
    /\ res.bar.keys = {"desc"}

\* The number of tuples of the positions p, p + 1, ... of the product of the
\* iterables taken `repeat` times, position p drawing from the iterable in
\* place ((p - 1) mod m) + 1.
RECURSIVE TuplesFrom(_, _, _)
TuplesFrom(iterables, repeat, p) ==
    IF p > Len(iterables) * repeat THEN 1
    ELSE iterables[((p - 1) % Len(iterables)) + 1].n * TuplesFrom(iterables, repeat, p + 1)

\* The k-th tuple, counting from 0, of the Cartesian product in its standard
\* order: the last position varies fastest.
ProductTuple(iterables, repeat, k) ==
    [p \in 1..(Len(iterables) * repeat) |->
        ((k \div TuplesFrom(iterables, repeat, p + 1))
            % iterables[((p - 1) % Len(iterables)) + 1].n) + 1]

\* C16: the tuples tproduct has delivered are the first tuples of the
\* Cartesian product in its standard order; the update count never exceeds
\* the number of tuples delivered; and once the sequence is exhausted all N
\* tuples were delivered and the update count is N.
C16_OneUpdatePerTuple ==
    LET N == TuplesFrom(gen.iterables, gen.repeat, 1)
    IN /\ gen.yielded = Len(gen.out)
       /\ Len(gen.out) <= N
       /\ \A k \in 1..Len(gen.out) : gen.out[k] = ProductTuple(gen.iterables, gen.repeat, k - 1)
       /\ gen.bar.n <= Len(gen.out)
       /\ gen.how = "exhausted" => (Len(gen.out) = N /\ gen.bar.n = N)

\* The product of two lists of two items was exhausted: four tuples in
\* order, four updates.
C16_Witness ==
    /\ gen.how = "exhausted"
    /\ gen.iterables = <<[kind |-> "list", n |-> 2], [kind |-> "list", n |-> 2]>>
    /\ gen.repeat = 1
    /\ gen.out = << <<1, 1>>, <<1, 2>>, <<2, 1>>, <<2, 2>> >>
    /\ gen.bar.n = 4

\* C17: a step that enters a scope, fails to enter it or leaves it changes
\* neither the handler list of a logger that is not in the scope's loggers
\* (the list object and its contents stay) nor the class, formatter, level
\* or stream of a handler object that exists before and after the step.
C17_OnlyListedLoggersChange ==
    [][last'.op \in {"enter", "enter_failed", "exit"} =>
          /\ \A l \in Loggers \ Range(last'.loggers) :
                 /\ lhandlers'[l] = lhandlers[l]
                 /\ lists'[lhandlers'[l]] = lists[lhandlers[l]]
          /\ \A h \in HandlerIds :
                 (hobj[h].cls # "free" /\ hobj'[h].cls # "free") => hobj'[h] = hobj[h]]_vars

\* A scope over the second logger alone was left while the root logger
\* holds a console handler and the file handler.
C17_Witness ==
    /\ last.op = "exit"
    /\ last.loggers = <<2>>
    /\ ConsoleHandlersOf(last.pre[1]) # <<>>
    /\ HandlersOf(1) = <<1, 2>>
    /\ \A h \in PreIds : hobj[h] = PreHandlers[h]

RedirectingHandlersOf(l) ==
    SelectSeq(HandlersOf(l), LAMBDA h : hobj[h].cls = "_TqdmLoggingHandler")

\* C18: a logger that is in the loggers of an active scope, however many
\* scopes redirect it and however often a scope's loggers name it, has
\* exactly one redirecting handler; and when the outermost scope has been
\* left, its loggers have their pre-entry handler lists, no logger has a
\* redirecting handler.
C18_ScopesCompose ==
    /\ \A k \in DOMAIN scopes : \A l \in Range(scopes[k].loggers) :
           Len(RedirectingHandlersOf(l)) = 1
    /\ (last.op = "exit" /\ scopes = <<>>) =>
           /\ \A i \in DOMAIN last.loggers : HandlersOf(last.loggers[i]) = last.pre[i]
           /\ \A l \in Loggers : RedirectingHandlersOf(l) = <<>>

\* Inside a scope over the root logger, a scope that names the root logger
\* twice was entered; the root logger had a console handler.
C18_Witness ==
    /\ Len(scopes) = 2
    /\ scopes[1].loggers = <<1>>
    /\ scopes[2].loggers = <<1, 1>>
    /\ ConsoleHandlersOf(scopes[1].pre[1]) # <<>>
    /\ last.op = "enter"

\* C19: whatever handlers the body adds or removes through the loggers, the
\* list objects a scope captured at entry hold what they held at entry as
\* long as the scope is active, and after the scope is left each of its
\* loggers has exactly its pre-entry handlers.
C19_BodyChangesAreTemporary ==
    /\ \A k \in DOMAIN scopes : \A i \in DOMAIN scopes[k].loggers :
           lists[scopes[k].original_handlers_list[i]] = scopes[k].pre[i]
    /\ last.op = "exit" =>
           \A i \in DOMAIN last.loggers :
               /\ HandlersOf(last.loggers[i]) = last.pre[i]
               /\ \A h \in Range(last.temporary[i]) \ Range(last.pre[i]) :
                      h \notin Range(HandlersOf(last.loggers[i]))

\* A scope was left whose body had added to a redirected logger, after the
\* redirecting handler, a handler the logger did not have before entry.
C19_Witness ==
    /\ last.op = "exit"
    /\ \E i \in DOMAIN last.loggers : \E j \in DOMAIN last.temporary[i] :
           /\ j > 1
           /\ last.temporary[i][j - 1] \notin PreIds
           /\ last.temporary[i][j] \in PreIds \ Range(last.pre[i])
           /\ last.temporary[i][j] \notin Range(HandlersOf(last.loggers[i]))

\* C20: a step in which entering a scope fails at one of the loggers ends
\* with the exception propagating, with every logger of the list bound to
\* the list object it had before, holding what it held before, and with no
\* scope active that was not active before: the body does not run.
C20_FailedEntryRestores ==
    [][last'.op = "enter_failed" =>
          /\ last'.how = "exception"
          /\ \A i \in DOMAIN last'.loggers :
                 /\ lhandlers'[last'.loggers[i]] = lhandlers[last'.loggers[i]]
                 /\ lists'[lhandlers'[last'.loggers[i]]] = last'.pre[i]
          /\ scopes' = scopes
          /\ bodyOps' = bodyOps]_vars

\* Entering a scope over both loggers failed at the second logger, after the
\* console handler of the first was replaced: the first has it again.
C20_Witness ==
    /\ last.op = "enter_failed"
    /\ last.failAt = 2
    /\ last.loggers = <<1, 2>>
    /\ ConsoleHandlersOf(last.pre[1]) # <<>>
    /\ HandlersOf(1) = last.pre[1]
    /\ scopes = <<>>

====
